---- MODULE Spec2Model ----
(***************************************************************************)
(* AgriFresh sensor API: CSV ingestion (services/csvIngestion.ts) over the *)
(* relational store described by db/schema.ts.                             *)
(*                                                                         *)
(* Texts are sequences of one-character strings.  An optional value        *)
(* (null / undefined in the source) is a sequence of length 0 or 1.        *)
(* Numbers are exact decimals [m, e] standing for m * 10^e.                *)
(***************************************************************************)
EXTENDS Integers, Sequences, FiniteSets, TLC

None == << >>
Some(v) == << v >>

\* ------------------------------------------------------------------------
\* Bounds of the model
\* ------------------------------------------------------------------------
MaxRows == 2
MaxRuns == 2
MaxFaults == 1
MaxLen == 4

\* ------------------------------------------------------------------------
\* Characters and numbers (String.prototype.trim / toUpperCase, parseFloat)
\* ------------------------------------------------------------------------
WhiteSpace == {" ", "\t", "\n", "\r"}

Digits == {"0", "1", "2", "3", "4", "5", "6", "7", "8", "9"}

DigitVal(c) ==
  CASE c = "0" -> 0 [] c = "1" -> 1 [] c = "2" -> 2 [] c = "3" -> 3
    [] c = "4" -> 4 [] c = "5" -> 5 [] c = "6" -> 6 [] c = "7" -> 7
    [] c = "8" -> 8 [] c = "9" -> 9

UpperChar(c) ==
  CASE c = "a" -> "A" [] c = "b" -> "B" [] c = "c" -> "C" [] c = "d" -> "D"
    [] c = "e" -> "E" [] c = "f" -> "F" [] c = "g" -> "G" [] c = "h" -> "H"
    [] c = "i" -> "I" [] c = "j" -> "J" [] c = "k" -> "K" [] c = "l" -> "L"
    [] c = "m" -> "M" [] c = "n" -> "N" [] c = "o" -> "O" [] c = "p" -> "P"
    [] c = "q" -> "Q" [] c = "r" -> "R" [] c = "s" -> "S" [] c = "t" -> "T"
    [] c = "u" -> "U" [] c = "v" -> "V" [] c = "w" -> "W" [] c = "x" -> "X"
    [] c = "y" -> "Y" [] c = "z" -> "Z" [] OTHER -> c

toUpperCase(s) == [i \in 1..Len(s) |-> UpperChar(s[i])]

RECURSIVE TrimStart(_)
TrimStart(s) ==
  IF s # << >> /\ Head(s) \in WhiteSpace THEN TrimStart(Tail(s)) ELSE s

RECURSIVE TrimEnd(_)
TrimEnd(s) ==
  IF s # << >> /\ s[Len(s)] \in WhiteSpace
    THEN TrimEnd(SubSeq(s, 1, Len(s) - 1))
    ELSE s

trim(s) == TrimEnd(TrimStart(s))

\* Length of the longest prefix of s made of decimal digits.
RECURSIVE DigitRun(_)
DigitRun(s) ==
  IF s # << >> /\ Head(s) \in Digits THEN 1 + DigitRun(Tail(s)) ELSE 0

\* Value of a sequence of decimal digits.
RECURSIVE DigitsValue(_)
DigitsValue(s) ==
  IF s = << >> THEN 0
  ELSE 10 * DigitsValue(SubSeq(s, 1, Len(s) - 1)) + DigitVal(s[Len(s)])

Drop(s, n) == SubSeq(s, n + 1, Len(s))

RECURSIVE Pow10(_)
Pow10(n) == IF n <= 0 THEN 1 ELSE 10 * Pow10(n - 1)

\* m * 10^e with the trailing zeros of m moved into e (0 is [0, 0]).
RECURSIVE Normal(_, _)
Normal(m, e) ==
  IF m = 0 THEN [m |-> 0, e |-> 0]
  ELSE IF m % 10 = 0 THEN Normal(m \div 10, e + 1)
  ELSE [m |-> m, e |-> e]

NaN == [kind |-> "NaN"]
Infinite(sign) == [kind |-> "Infinity", sign |-> sign]
Finite(m, e) == [kind |-> "finite", num |-> Normal(m, e)]

InfinityText == <<"I", "n", "f", "i", "n", "i", "t", "y">>

\* The pieces of a StrDecimalLiteral at the start of the unsigned text s:
\* integer digits, an optional "." with fraction digits, an optional exponent.
HasDot(s) == DigitRun(s) < Len(s) /\ s[DigitRun(s) + 1] = "."

FracLen(s) == IF HasDot(s) THEN DigitRun(Drop(s, DigitRun(s) + 1)) ELSE 0

MantissaLen(s) == DigitRun(s) + (IF HasDot(s) THEN 1 + FracLen(s) ELSE 0)

MantissaDigits(s) ==
  SubSeq(s, 1, DigitRun(s))
    \o SubSeq(s, DigitRun(s) + 2, DigitRun(s) + 1 + FracLen(s))

\* The value of the ExponentPart at the start of t, 0 when there is none.
ExponentOf(t) ==
  IF t = << >> \/ Head(t) \notin {"e", "E"} THEN 0
  ELSE IF Len(t) >= 2 /\ t[2] = "-"
    THEN 0 - DigitsValue(SubSeq(t, 3, 2 + DigitRun(Drop(t, 2))))
  ELSE IF Len(t) >= 2 /\ t[2] = "+"
    THEN DigitsValue(SubSeq(t, 3, 2 + DigitRun(Drop(t, 2))))
  ELSE DigitsValue(SubSeq(t, 2, 1 + DigitRun(Tail(t))))

ParseUnsigned(s, sign) ==
  IF Len(s) >= Len(InfinityText) /\ SubSeq(s, 1, Len(InfinityText)) = InfinityText
    THEN Infinite(sign)
  ELSE IF DigitRun(s) + FracLen(s) = 0 THEN NaN
  ELSE Finite(sign * DigitsValue(MantissaDigits(s)),
              ExponentOf(Drop(s, MantissaLen(s))) - FracLen(s))

ParseSigned(s) ==
  IF s # << >> /\ Head(s) = "-" THEN ParseUnsigned(Tail(s), 0 - 1)
  ELSE IF s # << >> /\ Head(s) = "+" THEN ParseUnsigned(Tail(s), 1)
  ELSE ParseUnsigned(s, 1)

\* parseFloat: the longest prefix that is a StrDecimalLiteral, NaN if none.
parseFloat(text) == ParseSigned(TrimStart(text))

isNaN(v) == v.kind = "NaN"

\* a > b for a parsed number a and an integer b.
GreaterThan(a, b) ==
  IF a.kind = "Infinity" THEN a.sign > 0
  ELSE IF a.num.e >= 0
    THEN IF a.num.e > 6 THEN a.num.m > 0
         ELSE a.num.m * Pow10(a.num.e) > b
    ELSE IF a.num.e < 0 - 6 THEN 0 > b \/ (0 = b /\ a.num.m > 0)
         ELSE a.num.m > b * Pow10(0 - a.num.e)

LessThan(a, b) ==
  IF a.kind = "Infinity" THEN a.sign < 0
  ELSE IF a.num.e >= 0
    THEN IF a.num.e > 6 THEN a.num.m < 0
         ELSE a.num.m * Pow10(a.num.e) < b
    ELSE IF a.num.e < 0 - 6 THEN 0 < b \/ (0 = b /\ a.num.m < 0)
         ELSE a.num.m < b * Pow10(0 - a.num.e)

\* ------------------------------------------------------------------------
\* parseSensorValue: one CSV cell (None = undefined) to numeric/isError/raw
\* ------------------------------------------------------------------------
\* Variant: the band closes below 1000.
UpperBandBelow == 1000 - 1

UpperBand == 1000
LowerBand == 0 - 100

ErrorTexts == {<<"E", "R", "R">>, <<"E", "R", "R", "O", "R">>}

parseSensorValue(value) ==
  IF value = None \/ trim(value[1]) = << >>
    THEN [numeric |-> None, isError |-> FALSE, raw |-> None]
  ELSE
    LET trimmed == trim(value[1])
        numValue == parseFloat(trimmed)
        isUnrealistic ==
          GreaterThan(numValue, UpperBand) \/ LessThan(numValue, LowerBand)
    IN  IF toUpperCase(trimmed) \in ErrorTexts
          THEN [numeric |-> None, isError |-> TRUE, raw |-> Some(trimmed)]
        ELSE IF isNaN(numValue)
          THEN [numeric |-> None, isError |-> TRUE, raw |-> Some(trimmed)]
        ELSE [numeric |-> IF isUnrealistic THEN None ELSE Some(numValue.num),
              isError |-> isUnrealistic,
              raw |-> Some(trimmed)]

\* ------------------------------------------------------------------------
\* CSV rows as csv-parser delivers them: the header's column names paired
\* with the cells the line holds (a short line leaves later keys undefined)
\* ------------------------------------------------------------------------
TimestampColumn == "Timestamp"

\* col.match(/Silo_(\d+)_(Temp|Humidity)/i) on the column names in use,
\* the metric already lower-cased.
ColumnMatch(col) ==
  CASE col = "Silo_001_Temp_C" -> Some([siloNumber |-> "001", metric |-> "temp"])
    [] col = "Silo_001_Humidity_%" -> Some([siloNumber |-> "001", metric |-> "humidity"])
    [] col = "Silo_002_Temp_C" -> Some([siloNumber |-> "002", metric |-> "temp"])
    [] col = "silo_002_humidity_%" -> Some([siloNumber |-> "002", metric |-> "humidity"])
    [] OTHER -> None

\* row[col]: None when the row object has no such key.
RowGet(row, col) ==
  LET hits == {i \in 1..Len(row.cells) : row.cols[i] = col}
  IN  IF hits = {} THEN None
      ELSE Some(row.cells[CHOOSE i \in hits : \A j \in hits : j <= i])

\* Variant: one entry per matching column instead of one per silo.
RECURSIVE SiloOrderPerColumn(_, _)
SiloOrderPerColumn(cols, seen) ==
  IF cols = << >> THEN << >>
  ELSE LET m == ColumnMatch(Head(cols))
       IN  IF Head(cols) # TimestampColumn /\ m # None
             THEN <<m[1].siloNumber>> \o SiloOrderPerColumn(Tail(cols), seen)
             ELSE SiloOrderPerColumn(Tail(cols), seen)

\* Keys of siloColumns in insertion order.
RECURSIVE SiloOrder(_, _)
SiloOrder(cols, seen) ==
  IF cols = << >> THEN << >>
  ELSE LET m == ColumnMatch(Head(cols))
       IN  IF Head(cols) # TimestampColumn /\ m # None
                /\ m[1].siloNumber \notin seen
             THEN <<m[1].siloNumber>>
                    \o SiloOrder(Tail(cols), seen \cup {m[1].siloNumber})
             ELSE SiloOrder(Tail(cols), seen)

\* siloColumns.get(siloNumber)[metric]: the last matching column's cell.
MetricCell(row, siloNumber, metric) ==
  LET hits == {i \in 1..Len(row.cells) :
                 /\ row.cols[i] # TimestampColumn
                 /\ ColumnMatch(row.cols[i])
                      = Some([siloNumber |-> siloNumber, metric |-> metric])}
  IN  IF hits = {} THEN None
      ELSE Some(row.cells[CHOOSE i \in hits : \A j \in hits : j <= i])

\* Variant: a flagged entry stores neither metric.
SiloEntryAllOrNothing(row, siloNumber) ==
  LET tempResult == parseSensorValue(MetricCell(row, siloNumber, "temp"))
      humidityResult == parseSensorValue(MetricCell(row, siloNumber, "humidity"))
      isError == tempResult.isError \/ humidityResult.isError
  IN  [siloNumber |-> siloNumber,
       temperature |-> IF isError THEN None ELSE tempResult.numeric,
       humidity |-> IF isError THEN None ELSE humidityResult.numeric,
       isError |-> isError,
       rawTemp |-> tempResult.raw,
       rawHumidity |-> humidityResult.raw]

SiloEntry(row, siloNumber) ==
  LET tempResult == parseSensorValue(MetricCell(row, siloNumber, "temp"))
      humidityResult == parseSensorValue(MetricCell(row, siloNumber, "humidity"))
  IN  [siloNumber |-> siloNumber,
       temperature |-> tempResult.numeric,
       humidity |-> humidityResult.numeric,
       isError |-> tempResult.isError \/ humidityResult.isError,
       rawTemp |-> tempResult.raw,
       rawHumidity |-> humidityResult.raw]

parseRow(row) ==
  LET order == SiloOrder(SubSeq(row.cols, 1, Len(row.cells)), {})
  IN  [timestamp |-> RowGet(row, TimestampColumn),
       readings |-> [k \in 1..Len(order) |-> SiloEntry(row, order[k])]]

\* new Date(text): the instant in minutes after local midnight of
\* 2023-10-27, for the timestamp texts in use (the process and the store run
\* in UTC, so local and Z texts agree); anything else is Invalid Date.
InvalidDate == [valid |-> FALSE, time |-> 0]

NewDate(text) ==
  IF text = None THEN InvalidDate
  ELSE CASE text[1] = "2023-10-27 08:00:00" -> [valid |-> TRUE, time |-> 480]
         [] text[1] = "2023-10-27 08:15:00" -> [valid |-> TRUE, time |-> 495]
         [] text[1] = "2023-10-27 09:00:00" -> [valid |-> TRUE, time |-> 540]
         [] text[1] = "2023-10-27T08:15:00Z" -> [valid |-> TRUE, time |-> 495]
         [] text[1] = "2023-10-27T09:00:00Z" -> [valid |-> TRUE, time |-> 540]
         [] OTHER -> InvalidDate

\* The raw_value column of a reading (source lines 184-186).
RawValue(reading) ==
  IF reading.rawTemp # None /\ reading.rawHumidity # None
    THEN Some(reading.rawTemp[1] \o <<",">> \o reading.rawHumidity[1])
  ELSE IF reading.rawTemp # None THEN reading.rawTemp
  ELSE reading.rawHumidity

\* ------------------------------------------------------------------------
\* Input files of the ingestion runs
\* ------------------------------------------------------------------------
Headers ==
  { <<"Timestamp", "Silo_001_Temp_C", "Silo_001_Humidity_%">>,
    <<"Timestamp", "Silo_001_Temp_C", "Silo_001_Humidity_%",
      "Silo_002_Temp_C", "silo_002_humidity_%">> }

TimestampTexts == {"2023-10-27 08:00:00", "2023-10-27 08:15:00", "n/a"}

\* Temperature and humidity cell of one silo.
CellPairs ==
  { << <<"2", "4", ".", "5">>, <<"4", "5">> >>,
    << <<"E", "R", "R">>, <<"5", "7">> >> }

Lines(header) ==
  { [cols |-> header,
     cells |-> [i \in 1..Len(header) |->
                  IF i = 1 THEN ts ELSE pair[1 + (i % 2)]]] :
      ts \in TimestampTexts, pair \in CellPairs }

Files ==
  UNION { UNION { [1..n -> Lines(header)] : n \in 1..MaxRows } :
            header \in Headers }

\* The files of the interleaved runs: all cells alike, valid timestamps.
ConcFiles ==
  {f \in Files :
     \A k \in 1..Len(f) :
       /\ f[k].cells[1] # "n/a"
       /\ f[k].cells[2] = <<"2", "4", ".", "5">>}

Runs == {1, 2}

\* ------------------------------------------------------------------------
\* State
\* ------------------------------------------------------------------------
VARIABLES
  silos,        \* table silos: rows [id, siloNumber, name]
  siloSeq,      \* last value of the serial sequence of silos.id
  readings,     \* table sensor_readings (created_at left out)
  readingSeq,   \* last value of the serial sequence of sensor_readings.id
  pc,           \* per run: the statement it is suspended at
  input,        \* per run: the lines of the file it reads
  rows,         \* per run: ParsedRow[] buffered by the data handler
  stats,        \* per run: rowsProcessed, silosFound, readingsInserted, errors
  siloIdCache,  \* per run: siloNumber -> id, as a set of pairs
  cur,          \* per run: <<row index, reading index>> of the loop
  outcome,      \* per run: what the promise settled with, None while pending
  started,      \* number of ingestion runs started so far
  faults,       \* number of store failures so far
  added,        \* per run: rows its inserts really added to sensor_readings
  prev,         \* per run: the previous run of the slot and the store it left
  query,        \* the query request in flight or just answered, None otherwise
  cell,         \* the CSV cell handed to parseSensorValue, None for undefined
  classified    \* what parseSensorValue returned for it, None before the call

vars == <<silos, siloSeq, readings, readingSeq, pc, input, rows, stats,
          siloIdCache, cur, outcome, started, faults, added, prev, query,
          cell, classified>>

NewStats ==
  [rowsProcessed |-> 0, silosFound |-> {}, readingsInserted |-> 0,
   errors |-> << >>]

Idle ==
  /\ silos = {}
  /\ siloSeq = 0
  /\ readings = {}
  /\ readingSeq = 0
  /\ pc = [r \in Runs |-> "idle"]
  /\ input = [r \in Runs |-> << >>]
  /\ rows = [r \in Runs |-> << >>]
  /\ stats = [r \in Runs |-> NewStats]
  /\ siloIdCache = [r \in Runs |-> {}]
  /\ cur = [r \in Runs |-> None]
  /\ outcome = [r \in Runs |-> None]
  /\ started = 0
  /\ faults = 0
  /\ added = [r \in Runs |-> 0]
  /\ prev = [r \in Runs |-> None]
  /\ query = None

Init == Idle /\ cell = None /\ classified = None

\* ------------------------------------------------------------------------
\* The store
\* ------------------------------------------------------------------------
\* Variant: the lookup without its where clause.
FindFirstSiloAny(table, siloNumber) == table

\* db.query.silos.findFirst({ where: eq(silos.siloNumber, siloNumber) })
FindFirstSilo(table, siloNumber) ==
  {s \in table : s.siloNumber = siloNumber}

\* Variant: silo_number without its unique constraint.
SiloNumberFree(table, siloNumber) == FALSE

\* silos.siloNumber is notNull().unique(), with unique index silo_number_idx.
SiloNumberTaken(table, siloNumber) ==
  \E s \in table : s.siloNumber = siloNumber

\* Variant: the unique index on timestamp alone (timestamp_idx of the first
\* migration).
TimestampConflict(table, siloId, time) ==
  \E x \in table : x.timestamp = time

\* unique index silo_time_idx on (silo_id, timestamp).
SiloTimeConflict(table, siloId, time) ==
  \E x \in table : x.siloId = siloId /\ x.timestamp = time

\* Variant: the insert with no unique index behind it.
InsertUnchecked(table, v) == [table |-> table \cup {v}, thrown |-> None]

\* Variant: the plain insert, which throws on a unique violation.
InsertPlain(table, v) ==
  IF SiloTimeConflict(table, v.siloId, v.timestamp)
    THEN [table |-> table, thrown |-> Some("silo_time_idx")]
    ELSE [table |-> table \cup {v}, thrown |-> None]

\* Variant: the conflicting row takes the offered values (an upsert).
InsertOnConflictDoUpdate(table, v) ==
  [table |->
     {IF x.siloId = v.siloId /\ x.timestamp = v.timestamp
        THEN [v EXCEPT !.id = x.id] ELSE x : x \in table}
       \cup (IF SiloTimeConflict(table, v.siloId, v.timestamp)
               THEN {} ELSE {v}),
   thrown |-> None]

\* insert(sensorReadings).values(v).onConflictDoNothing(): the table after
\* the statement, and the error it throws (None: it completes).
InsertOnConflictDoNothing(table, v) ==
  IF SiloTimeConflict(table, v.siloId, v.timestamp)
    THEN [table |-> table, thrown |-> None]
    ELSE [table |-> table \cup {v}, thrown |-> None]

\* ------------------------------------------------------------------------
\* ingestCSV
\* ------------------------------------------------------------------------
\* An answered query stays in the state for the one step that answers it.
Answered == query # None /\ query[1].at = "answered"

\* Ingestion does not touch a query in flight.
IngestionStep ==
  /\ query' = IF Answered THEN None ELSE query
  /\ UNCHANGED <<cell, classified>>

CacheGet(cache, siloNumber) ==
  LET hits == {p \in cache : p[1] = siloNumber}
  IN  IF hits = {} THEN None ELSE Some((CHOOSE p \in hits : TRUE)[2])

CacheSet(cache, siloNumber, id) ==
  {p \in cache : p[1] # siloNumber} \cup {<<siloNumber, id>>}

\* The loop position after <<i, j>>, None when the rows are exhausted.
RECURSIVE NextEntry(_, _, _)
NextEntry(buffer, i, j) ==
  IF i > Len(buffer) THEN None
  ELSE IF j < Len(buffer[i].readings) THEN Some(<<i, j + 1>>)
  ELSE NextEntry(buffer, i + 1, 0)

EntryAt(buffer, pos) == buffer[pos[1][1]].readings[pos[1][2]]

\* Where the end handler suspends next: at the silo lookup, at the reading
\* insert (silo cached), or not at all (resolve).
Suspend(buffer, pos, cache) ==
  IF pos = None THEN "done"
  ELSE IF CacheGet(cache, EntryAt(buffer, pos).siloNumber) # None
    THEN "insert"
    ELSE "find"

\* The row the insert of the current reading offers, id from the sequence.
ReadingValues(id, siloId, time, reading) ==
  [id |-> id,
   siloId |-> siloId,
   timestamp |-> time,
   temperature |-> reading.temperature,
   humidity |-> reading.humidity,
   isError |-> reading.isError,
   rawValue |-> RawValue(reading)]

InsertErrorMsg(reading, cause) ==
  [text |-> "Error inserting reading for silo", silo |-> reading.siloNumber,
   cause |-> cause]

\* What reject(error) and resolve({success, message, stats}) settle with.
Rejected(error) == [settled |-> "rejected", error |-> error]

\* Variant: success reported without looking at the error list.
ResolvedAsSuccess(st) ==
  [settled |-> "resolved",
   success |-> TRUE,
   message |-> <<"Processed", st.rowsProcessed, "rows, inserted",
                 st.readingsInserted, "readings">>,
   stats |-> st]

Resolved(st) ==
  [settled |-> "resolved",
   success |-> Len(st.errors) = 0,
   message |-> <<"Processed", st.rowsProcessed, "rows, inserted",
                 st.readingsInserted, "readings">>,
   stats |-> st]

\* The loop from position pos, with stats st, up to its next await: the next
\* statement is issued, or the rows are exhausted and the promise resolves.
Continue(r, pos, st) ==
  /\ cur' = [cur EXCEPT ![r] = pos]
  /\ pc' = [pc EXCEPT ![r] = Suspend(rows[r], pos, siloIdCache[r])]
  /\ outcome' = [outcome EXCEPT ![r] =
       IF pos = None THEN Some(Resolved(st)) ELSE None]

AfterCur(r) == NextEntry(rows[r], cur[r][1][1], cur[r][1][2])

\* A request handler calls ingestCSV(filePath).
Start(r, file) ==
  /\ pc[r] \in {"idle", "done", "failed"}
  /\ started < MaxRuns
  /\ started' = started + 1
  /\ prev' = [prev EXCEPT ![r] =
       IF pc[r] = "idle" THEN None
       ELSE Some([outcome |-> outcome[r], input |-> input[r],
                  stats |-> stats[r], silos |-> silos,
                  readings |-> readings])]
  /\ pc' = [pc EXCEPT ![r] = "streaming"]
  /\ input' = [input EXCEPT ![r] = file]
  /\ rows' = [rows EXCEPT ![r] = << >>]
  /\ stats' = [stats EXCEPT ![r] = NewStats]
  /\ siloIdCache' = [siloIdCache EXCEPT ![r] = {}]
  /\ cur' = [cur EXCEPT ![r] = None]
  /\ outcome' = [outcome EXCEPT ![r] = None]
  /\ added' = [added EXCEPT ![r] = 0]
  /\ UNCHANGED <<silos, siloSeq, readings, readingSeq, faults>>
  /\ IngestionStep

\* Variant: the data handler provisions the silos of the row as it arrives.
StreamDataProvisions(r) ==
  /\ pc[r] = "streaming"
  /\ Len(rows[r]) < Len(input[r])
  /\ LET parsed == parseRow(input[r][Len(rows[r]) + 1])
         fresh == {k \in 1..Len(parsed.readings) :
                     ~SiloNumberTaken(silos, parsed.readings[k].siloNumber)}
     IN  /\ rows' = [rows EXCEPT ![r] = Append(@, parsed)]
         /\ stats' = [stats EXCEPT
              ![r].rowsProcessed = @ + 1,
              ![r].silosFound =
                 @ \cup {parsed.readings[k].siloNumber :
                           k \in 1..Len(parsed.readings)}]
         /\ silos' = silos \cup
              {[id |-> siloSeq + k,
                siloNumber |-> parsed.readings[k].siloNumber,
                name |-> <<"Silo ", parsed.readings[k].siloNumber>>] :
                 k \in fresh}
         /\ siloSeq' = siloSeq + Len(parsed.readings)
  /\ UNCHANGED <<readings, readingSeq, pc, input, siloIdCache, cur, outcome,
                 started, faults, added, prev>>
  /\ IngestionStep

\* .on("data", row => ...)
StreamData(r) ==
  /\ pc[r] = "streaming"
  /\ Len(rows[r]) < Len(input[r])
  /\ LET parsed == parseRow(input[r][Len(rows[r]) + 1])
     IN  /\ rows' = [rows EXCEPT ![r] = Append(@, parsed)]
         /\ stats' = [stats EXCEPT
              ![r].rowsProcessed = @ + 1,
              ![r].silosFound =
                 @ \cup {parsed.readings[k].siloNumber :
                           k \in 1..Len(parsed.readings)}]
  /\ UNCHANGED <<silos, siloSeq, readings, readingSeq, pc, input,
                 siloIdCache, cur, outcome, started, faults, added, prev>>
  /\ IngestionStep

\* .on("end", ...) up to its first await.
StreamEnd(r) ==
  /\ pc[r] = "streaming"
  /\ Len(rows[r]) = Len(input[r])
  /\ Continue(r, NextEntry(rows[r], 1, 0), stats[r])
  /\ UNCHANGED <<silos, siloSeq, readings, readingSeq, input, rows, stats,
                 siloIdCache, started, faults, added, prev>>
  /\ IngestionStep

\* getOrCreateSilo: the lookup, and what follows it up to the next await.
FindSilo(r) ==
  /\ pc[r] = "find"
  /\ LET existing == FindFirstSilo(silos, EntryAt(rows[r], cur[r]).siloNumber)
     IN  IF existing # {}
           THEN /\ siloIdCache' = [siloIdCache EXCEPT ![r] =
                     CacheSet(@, EntryAt(rows[r], cur[r]).siloNumber,
                              (CHOOSE s \in existing : TRUE).id)]
                /\ pc' = [pc EXCEPT ![r] = "insert"]
           ELSE /\ pc' = [pc EXCEPT ![r] = "create"]
                /\ UNCHANGED siloIdCache
  /\ UNCHANGED <<silos, siloSeq, readings, readingSeq, input, rows, stats,
                 cur, outcome, started, faults, added, prev>>
  /\ IngestionStep

\* getOrCreateSilo: db.insert(silos).values(...).returning(...).  A unique
\* violation is thrown out of the loop: the end handler's outer catch rejects.
CreateSilo(r) ==
  /\ pc[r] = "create"
  /\ siloSeq' = siloSeq + 1
  /\ LET siloNumber == EntryAt(rows[r], cur[r]).siloNumber
     IN  IF SiloNumberTaken(silos, siloNumber)
           THEN /\ pc' = [pc EXCEPT ![r] = "failed"]
                /\ outcome' = [outcome EXCEPT ![r] =
                     Some(Rejected("silos_silo_number_unique"))]
                /\ UNCHANGED <<silos, siloIdCache>>
           ELSE /\ silos' = silos \cup
                     {[id |-> siloSeq + 1, siloNumber |-> siloNumber,
                       name |-> <<"Silo ", siloNumber>>]}
                /\ siloIdCache' = [siloIdCache EXCEPT ![r] =
                     CacheSet(@, siloNumber, siloSeq + 1)]
                /\ pc' = [pc EXCEPT ![r] = "insert"]
                /\ UNCHANGED outcome
  /\ UNCHANGED <<readings, readingSeq, input, rows, stats, cur, started,
                 faults, added, prev>>
  /\ IngestionStep

\* db.insert(sensorReadings).values(...).onConflictDoNothing(), then
\* stats.readingsInserted++.  An Invalid Date makes the timestamp column's
\* toISOString() throw a RangeError, which the inner catch records.
InsertReading(r) ==
  /\ pc[r] = "insert"
  /\ LET reading == EntryAt(rows[r], cur[r])
         timestamp == NewDate(rows[r][cur[r][1][1]].timestamp)
         siloId == CacheGet(siloIdCache[r], reading.siloNumber)[1]
         done == InsertOnConflictDoNothing(
                   readings,
                   ReadingValues(readingSeq + 1, siloId, timestamp.time,
                                 reading))
     IN  IF ~timestamp.valid
           THEN /\ stats' = [stats EXCEPT ![r].errors =
                     Append(@, InsertErrorMsg(reading, "Invalid time value"))]
                /\ UNCHANGED <<readings, readingSeq, added>>
           ELSE /\ readings' = done.table
                /\ readingSeq' = readingSeq + 1
                /\ added' = [added EXCEPT ![r] =
                     @ + Cardinality(done.table) - Cardinality(readings)]
                /\ stats' = IF done.thrown = None
                     THEN [stats EXCEPT ![r].readingsInserted = @ + 1]
                     ELSE [stats EXCEPT ![r].errors =
                             Append(@, InsertErrorMsg(reading, done.thrown[1]))]
  /\ Continue(r, AfterCur(r), stats'[r])
  /\ UNCHANGED <<silos, siloSeq, input, rows, siloIdCache, started, faults,
                 prev>>
  /\ IngestionStep

\* Variant: no inner try/catch, the failure rejects the whole run.
InsertReadingFailsAborts(r) ==
  /\ pc[r] = "insert"
  /\ faults < MaxFaults
  /\ faults' = faults + 1
  /\ pc' = [pc EXCEPT ![r] = "failed"]
  /\ outcome' = [outcome EXCEPT ![r] = Some(Rejected("store error"))]
  /\ UNCHANGED <<silos, siloSeq, readings, readingSeq, input, rows, stats,
                 siloIdCache, cur, started, added, prev>>
  /\ IngestionStep

\* The same statement when the store fails it: the inner catch records it.
InsertReadingFails(r) ==
  /\ pc[r] = "insert"
  /\ faults < MaxFaults
  /\ faults' = faults + 1
  /\ stats' = [stats EXCEPT ![r].errors =
       Append(@, InsertErrorMsg(EntryAt(rows[r], cur[r]), "store error"))]
  /\ Continue(r, AfterCur(r), stats'[r])
  /\ UNCHANGED <<silos, siloSeq, readings, readingSeq, input, rows,
                 siloIdCache, started, added, prev>>
  /\ IngestionStep

\* .on("error", error => reject(error)): the parser stream fails before its
\* end, the rows buffered so far are dropped with the call.
StreamError(r) ==
  /\ pc[r] = "streaming"
  /\ pc' = [pc EXCEPT ![r] = "failed"]
  /\ outcome' = [outcome EXCEPT ![r] = Some(Rejected("stream error"))]
  /\ UNCHANGED <<silos, siloSeq, readings, readingSeq, input, rows, stats,
                 siloIdCache, cur, started, faults, added, prev>>
  /\ IngestionStep

\* Variant: the failed lookup recorded like a failed insert, the loop goes on.
FindSiloFailsRecorded(r) ==
  /\ pc[r] = "find"
  /\ faults < MaxFaults
  /\ faults' = faults + 1
  /\ stats' = [stats EXCEPT ![r].errors =
       Append(@, InsertErrorMsg(EntryAt(rows[r], cur[r]), "store error"))]
  /\ Continue(r, AfterCur(r), stats'[r])
  /\ UNCHANGED <<silos, siloSeq, readings, readingSeq, input, rows,
                 siloIdCache, started, added, prev>>
  /\ IngestionStep

\* getOrCreateSilo's lookup when the store fails it: nothing around the call
\* catches it but the end handler's outer catch, which rejects.
FindSiloFails(r) ==
  /\ pc[r] = "find"
  /\ faults < MaxFaults
  /\ faults' = faults + 1
  /\ pc' = [pc EXCEPT ![r] = "failed"]
  /\ outcome' = [outcome EXCEPT ![r] = Some(Rejected("store error"))]
  /\ UNCHANGED <<silos, siloSeq, readings, readingSeq, input, rows, stats,
                 siloIdCache, cur, started, added, prev>>
  /\ IngestionStep

\* getOrCreateSilo's insert when the store fails it: rejected the same way.
CreateSiloFails(r) ==
  /\ pc[r] = "create"
  /\ faults < MaxFaults
  /\ faults' = faults + 1
  /\ pc' = [pc EXCEPT ![r] = "failed"]
  /\ outcome' = [outcome EXCEPT ![r] = Some(Rejected("store error"))]
  /\ UNCHANGED <<silos, siloSeq, readings, readingSeq, input, rows, stats,
                 siloIdCache, cur, started, added, prev>>
  /\ IngestionStep

Step(r, files) ==
  \/ \E file \in files : Start(r, file)
  \/ StreamData(r)
  \/ StreamEnd(r)
  \/ StreamError(r)
  \/ FindSilo(r)
  \/ FindSiloFails(r)
  \/ CreateSilo(r)
  \/ CreateSiloFails(r)
  \/ InsertReading(r)
  \/ InsertReadingFails(r)

\* One request at a time: every run ends before the next one starts.
Next == Step(1, Files)

Spec == Init /\ [][Next]_vars

\* Two requests in flight: their handlers interleave at every await.
NextConc == \E r \in Runs : Step(r, ConcFiles)

SpecConc == Init /\ [][NextConc]_vars

\* Files of every kind of cell: numeric, ERR, out of band, empty, and an
\* empty cell next to a numeric one.  Row k carries the k-th instant, every
\* silo of a row the same two cells.
MixPairs ==
  CellPairs \cup { << <<"9", "9", "9", "9">>, <<"4", "5">> >>,
                   << << >>, << >> >>,
                   << << >>, <<"4", "5">> >> }

MixTimes ==
  <<"2023-10-27 08:00:00", "2023-10-27 08:15:00", "2023-10-27 09:00:00">>

MixFiles ==
  UNION { UNION { { [k \in 1..n |->
                      [cols |-> header,
                       cells |-> [i \in 1..Len(header) |->
                                    IF i = 1 THEN MixTimes[k]
                                    ELSE pairs[k][1 + (i % 2)]]]] :
                    pairs \in [1..n -> MixPairs] } :
                  n \in {m \in 1..MaxRows : m <= Len(MixTimes)} } :
          header \in Headers }

NextMix == Step(1, MixFiles)

SpecMix == Init /\ [][NextMix]_vars

\* parseSensorValue on its own: every text of up to MaxLen characters over
\* an alphabet of blanks, sign, point, digits, exponent and letters, and a
\* few longer ones; None is the undefined cell of a short line.
Alphabet == {" ", "-", ".", "0", "1", "9", "e", "E", "r", "R"}

LongTexts ==
  { <<"E", "R", "R", "O", "R">>, <<"e", "r", "r", "o", "r">>,
    <<" ", "E", "r", "r", "o", "r", " ">>, InfinityText,
    <<"2", "4", ".", "5">>, <<"N", "/", "A">>, <<"2", "4", ".", "5", "C">>,
    <<"-", "1", "0", "0", ".", "5">>, <<"1", "0", "0", "0", ".", "5">> }

CellInputs ==
  {None} \cup
    {Some(t) : t \in LongTexts
                     \cup UNION { [1..n -> Alphabet] : n \in 0..MaxLen }}

InitClassify == Idle /\ cell \in CellInputs /\ classified = None

Classify ==
  /\ classified = None
  /\ classified' = Some(parseSensorValue(cell))
  /\ UNCHANGED <<silos, siloSeq, readings, readingSeq, pc, input, rows,
                 stats, siloIdCache, cur, outcome, started, faults, added,
                 prev, query, cell>>

NextClassify == Classify

SpecClassify == InitClassify /\ [][NextClassify]_vars

\* ------------------------------------------------------------------------
\* Queries: the request handlers of routes/silos.ts and routes/sensorRoutes.ts
\* over services/sensorService.ts
\* ------------------------------------------------------------------------
\* The files ingested next to the queries: two silos, three instants, a
\* numeric and an ERR temperature, two lines for the first instant.
QueryCells ==
  { <<"2023-10-27 08:00:00", <<"2", "4", ".", "5">>, <<"4", "5">> >>,
    <<"2023-10-27 08:00:00", <<"E", "R", "R">>, <<"5", "7">> >>,
    <<"2023-10-27 08:15:00", <<"E", "R", "R">>, <<"5", "7">> >>,
    <<"2023-10-27 09:00:00", <<"2", "4", ".", "5">>, <<"4", "5">> >> }

QueryLines ==
  { [cols |-> header,
     cells |-> [i \in 1..Len(header) |->
                  IF i = 1 THEN c[1] ELSE c[2 + (i % 2)]]] :
      header \in {h \in Headers : Len(h) = 5}, c \in QueryCells }

\* Files of MaxRows lines under one header, in chronological order.
QueryFiles ==
  {f \in [1..MaxRows -> QueryLines] :
     /\ \A k \in 1..Len(f) : f[k].cols = f[1].cols
     /\ \A k \in 1..(Len(f) - 1) :
          NewDate(Some(f[k].cells[1])).time
            < NewDate(Some(f[k + 1].cells[1])).time}

\* Request parameters: a known and a never-ingested silo identifier, page
\* sizes and offsets around the number of readings a silo can hold.
SiloNumbers == {"001", "999"}
Limits == {1, 2}
Offsets == {0, 2}

\* z.coerce.boolean(): Boolean(text) of the query-string text.
CoerceBoolean(text) == text # ""

\* routes/silos.ts querySchema.includeErrors: coerced, default(true).
SilosIncludeErrors(field) ==
  IF field = None THEN TRUE ELSE CoerceBoolean(field[1])

\* routes/sensorRoutes.ts querySchema.includeErrors, an enum of "true" and
\* "false" with default("false"), compared with "true" at line 90.
ReadingsIncludeErrors(field) ==
  (IF field = None THEN "false" ELSE field[1]) = "true"

\* The default of limit in routes/sensorRoutes.ts and getSensorReadings.
DefaultLimit == 100

\* where and(...conditions): the silo condition if there is one, and
\* isError = false unless errors are included.
Matching(table, siloId, includeErrors) ==
  {x \in table :
     /\ siloId = None \/ x.siloId = siloId[1]
     /\ includeErrors \/ ~x.isError}

\* orderBy(desc(timestamp)): every order the store may return, rows of one
\* instant in any order.
RECURSIVE NewestFirst(_)
NewestFirst(S) ==
  IF S = {} THEN {<< >>}
  ELSE UNION { {<<x>> \o t : t \in NewestFirst(S \ {x})} :
                 x \in {y \in S : \A z \in S : y.timestamp >= z.timestamp} }

\* .limit(limit).offset(offset)
LimitOffset(seq, limit, offset) ==
  SubSeq(seq, offset + 1,
         IF offset + limit < Len(seq) THEN offset + limit ELSE Len(seq))


\* The columns the handlers select from a reading.
ReadingRow(x) ==
  [id |-> x.id, timestamp |-> x.timestamp, temperature |-> x.temperature,
   humidity |-> x.humidity, isError |-> x.isError, rawValue |-> x.rawValue]

\* getSensorReadings: the reading with its silo (with: { silo: true }).
JoinedRow(x, table) ==
  LET silo == CHOOSE s \in table : s.id = x.siloId
  IN  [id |-> x.id, siloNumber |-> silo.siloNumber, siloName |-> silo.name,
       timestamp |-> x.timestamp, temperature |-> x.temperature,
       humidity |-> x.humidity, isError |-> x.isError,
       rawValue |-> x.rawValue]

\* a <= b for two stored decimals.
NumLeq(a, b) ==
  LET k == IF a.e < b.e THEN a.e ELSE b.e
  IN  a.m * Pow10(a.e - k) <= b.m * Pow10(b.e - k)

\* getAggregatedStats: one row per silo that has a matching reading with a
\* temperature (inner join, group by silo_number); the averages, the humidity
\* columns and the order of the rows are left out.
AggregatedRows(siloTable, readingTable, siloId) ==
  LET rowsOf(s) == {x \in Matching(readingTable, siloId, TRUE) :
                      x.siloId = s.id /\ x.temperature # None}
  IN  { [siloNumber |-> s.siloNumber,
         readingCount |-> Cardinality(rowsOf(s)),
         minTemperature |->
           (CHOOSE x \in rowsOf(s) : \A y \in rowsOf(s) :
              NumLeq(x.temperature[1], y.temperature[1])).temperature[1],
         maxTemperature |->
           (CHOOSE x \in rowsOf(s) : \A y \in rowsOf(s) :
              NumLeq(y.temperature[1], x.temperature[1])).temperature[1]] :
        s \in {t \in siloTable : rowsOf(t) # {}} }

NotFound == [status |-> 404, error |-> "Silo not found"]

ingestVars ==
  <<silos, siloSeq, readings, readingSeq, pc, input, rows, stats,
    siloIdCache, cur, outcome, started, faults, added, prev, cell,
    classified>>

\* A request arrives when the one before it has been answered; req holds
\* its parameters, an absent one as None.
NewQuery(op, req, at) ==
  /\ query = None \/ Answered
  /\ query' = Some([op |-> op, req |-> req, at |-> at, silo |-> None,
                    page |-> << >>, response |-> None])
  /\ UNCHANGED ingestVars

Goto(at, silo, page) ==
  /\ query' = Some([query[1] EXCEPT !.at = at, !.silo = silo, !.page = page])
  /\ UNCHANGED ingestVars

At(op, at) == query # None /\ query[1].op = op /\ query[1].at = at

Answer(response) ==
  /\ query' = Some([query[1] EXCEPT !.at = "answered",
                                    !.response = Some(response)])
  /\ UNCHANGED ingestVars

\* GET /api/silos/:siloNumber/readings: validation, up to the silo lookup.
SiloReadingsRequest(siloNumber, limit, offset, field) ==
  NewQuery("siloReadings",
           [siloNumber |-> Some(siloNumber), limit |-> limit,
            offset |-> offset, includeErrors |-> field],
           "silo")

SiloReadingsFindSilo ==
  /\ At("siloReadings", "silo")
  /\ LET silo == FindFirstSilo(silos, query[1].req.siloNumber[1])
     IN  IF silo = {} THEN Answer(NotFound)
         ELSE Goto("page", Some(CHOOSE t \in silo : TRUE), << >>)

\* The conditions of the handler, built once and used by both statements.
SiloReadingsMatching ==
  Matching(readings, Some(query[1].silo[1].id),
           SilosIncludeErrors(query[1].req.includeErrors))

SiloReadingsPage ==
  /\ At("siloReadings", "page")
  /\ \E seq \in NewestFirst(SiloReadingsMatching) :
       LET page == LimitOffset(seq, query[1].req.limit, query[1].req.offset)
       IN  Goto("count", query[1].silo,
                [k \in 1..Len(page) |-> ReadingRow(page[k])])

\* count(*) over the same conditions, then res.json.
SiloReadingsCount ==
  /\ At("siloReadings", "count")
  /\ LET total == Cardinality(SiloReadingsMatching)
     IN  Answer([status |-> 200,
                 silo |-> query[1].silo[1],
                 readings |-> query[1].page,
                 total |-> total,
                 limit |-> query[1].req.limit,
                 offset |-> query[1].req.offset,
                 hasMore |->
                   query[1].req.offset + Len(query[1].page) < total])

\* GET /api/readings: validation, then getSensorReadings.
ReadingsRequest(siloNumber, field) ==
  NewQuery("readings",
           [siloNumber |-> siloNumber, limit |-> DefaultLimit, offset |-> 0,
            includeErrors |-> field],
           IF siloNumber # None THEN "silo" ELSE "select")

\* if (silo) conditions.push(...): no condition when no silo is found.
ReadingsFindSilo ==
  /\ At("readings", "silo")
  /\ LET silo == FindFirstSilo(silos, query[1].req.siloNumber[1])
     IN  Goto("select",
              IF silo = {} THEN None ELSE Some(CHOOSE t \in silo : TRUE),
              << >>)

ReadingsSelect ==
  /\ At("readings", "select")
  /\ \E seq \in NewestFirst(
         Matching(readings,
                  IF query[1].silo = None THEN None
                  ELSE Some(query[1].silo[1].id),
                  ReadingsIncludeErrors(query[1].req.includeErrors))) :
       LET page == LimitOffset(seq, query[1].req.limit, query[1].req.offset)
       IN  Answer([status |-> 200,
                   count |-> Len(page),
                   data |-> [k \in 1..Len(page) |->
                               JoinedRow(page[k], silos)]])

\* GET /api/stats: getAggregatedStats(siloNumber).
StatsRequest(siloNumber) ==
  NewQuery("stats",
           [siloNumber |-> siloNumber, limit |-> DefaultLimit, offset |-> 0,
            includeErrors |-> None],
           IF siloNumber # None THEN "silo" ELSE "select")

StatsFindSilo ==
  /\ At("stats", "silo")
  /\ LET silo == FindFirstSilo(silos, query[1].req.siloNumber[1])
     IN  Goto("select",
              IF silo = {} THEN None ELSE Some(CHOOSE t \in silo : TRUE),
              << >>)

StatsSelect ==
  /\ At("stats", "select")
  /\ Answer([status |-> 200,
             data |-> AggregatedRows(
                        silos, readings,
                        IF query[1].silo = None THEN None
                        ELSE Some(query[1].silo[1].id))])

Ask ==
  \/ \E n \in SiloNumbers, limit \in Limits, offset \in Offsets,
        field \in {None, Some("")} :
       SiloReadingsRequest(n, limit, offset, field)
  \/ SiloReadingsFindSilo
  \/ SiloReadingsPage
  \/ SiloReadingsCount
  \/ \E n \in {None} \cup {Some(m) : m \in SiloNumbers},
        field \in {None, Some("true"), Some("false")} :
       ReadingsRequest(n, field)
  \/ ReadingsFindSilo
  \/ ReadingsSelect
  \/ \E n \in {None} \cup {Some(m) : m \in SiloNumbers} : StatsRequest(n)
  \/ StatsFindSilo
  \/ StatsSelect

\* One ingestion at a time, and queries at any point of it.
NextQuery == Step(1, QueryFiles) \/ Ask

SpecQuery == Init /\ [][NextQuery]_vars

\* ------------------------------------------------------------------------
\* Reports: latest reading per silo, silo statistics, hourly analytics
\* ------------------------------------------------------------------------
\* asc(silos.siloNumber): the place of the identifiers in use in the store's
\* text order.
SiloNumberKey(siloNumber) ==
  CASE siloNumber = "001" -> 1
    [] siloNumber = "002" -> 2
    [] OTHER -> 3

\* Variant: the join with the subquery on the silo alone.
JoinsLatestOnSilo(table, x) == TRUE

\* The subquery "latest" (max(timestamp) group by silo_id) joined on silo_id
\* and timestamp: x is a reading at the maximum timestamp of its silo.
JoinsLatest(table, x) ==
  \A y \in table : y.siloId = x.siloId => y.timestamp <= x.timestamp

\* orderBy(asc(silos.siloNumber)): every order the store may return.
RECURSIVE BySiloNumber(_, _)
BySiloNumber(S, siloTable) ==
  IF S = {} THEN {<< >>}
  ELSE LET key(x) ==
             SiloNumberKey((CHOOSE s \in siloTable : s.id = x.siloId).siloNumber)
       IN  UNION { {<<x>> \o t : t \in BySiloNumber(S \ {x}, siloTable)} :
                     x \in {y \in S : \A z \in S : key(y) <= key(z)} }

\* The columns getLatestReadings selects.
LatestRow(x, siloTable) ==
  LET silo == CHOOSE s \in siloTable : s.id = x.siloId
  IN  [siloNumber |-> silo.siloNumber, siloName |-> silo.name,
       timestamp |-> x.timestamp, temperature |-> x.temperature,
       humidity |-> x.humidity, isError |-> x.isError]

\* getLatestReadings: the answers the one statement may give.
getLatestReadings(siloTable, readingTable) ==
  { [k \in 1..Len(seq) |-> LatestRow(seq[k], siloTable)] :
      seq \in BySiloNumber(
                {x \in readingTable :
                   /\ \E s \in siloTable : s.id = x.siloId
                   /\ JoinsLatest(readingTable, x)},
                siloTable) }

\* GET /api/readings/latest
LatestRequest == NewQuery("latest", [siloNumber |-> None], "select")

LatestSelect ==
  /\ At("latest", "select")
  /\ \E data \in getLatestReadings(silos, readings) :
       Answer([status |-> 200, count |-> Len(data), data |-> data])

\* a + b for two stored decimals.
NumAdd(a, b) ==
  LET k == IF a.e < b.e THEN a.e ELSE b.e
  IN  Normal(a.m * Pow10(a.e - k) + b.m * Pow10(b.e - k), k)

RECURSIVE NumSum(_, _)
NumSum(S, column) ==
  IF S = {} THEN Normal(0, 0)
  ELSE LET x == CHOOSE y \in S : TRUE
       IN  NumAdd(x[column][1], NumSum(S \ {x}, column))

\* avg, min and max of a column over the rows S: the aggregates skip the
\* rows where it is null, and are null when no row is left.  The average is
\* the quotient sum / count, kept as the pair.
Aggregates(S, column) ==
  LET valued == {x \in S : x[column] # None}
  IN  IF valued = {} THEN [avg |-> None, min |-> None, max |-> None]
      ELSE [avg |-> Some([sum |-> NumSum(valued, column),
                          count |-> Cardinality(valued)]),
            min |-> (CHOOSE x \in valued : \A y \in valued :
                       NumLeq(x[column][1], y[column][1]))[column],
            max |-> (CHOOSE x \in valued : \A y \in valued :
                       NumLeq(y[column][1], x[column][1]))[column]]

\* sum(case when is_error then 1 else 0 end): null over no rows.
ErrorCount(S) ==
  IF S = {} THEN None ELSE Some(Cardinality({x \in S : x.isError}))

\* The statistics select of GET /api/silos/:siloNumber.
SiloStatistics(table, siloId) ==
  LET S == {x \in table : x.siloId = siloId}
      temp == Aggregates(S, "temperature")
      hum == Aggregates(S, "humidity")
  IN  [avgTemp |-> temp.avg, minTemp |-> temp.min, maxTemp |-> temp.max,
       avgHumidity |-> hum.avg, minHumidity |-> hum.min,
       maxHumidity |-> hum.max,
       errorCount |-> ErrorCount(S),
       totalCount |-> Cardinality(S)]

\* GET /api/silos/:siloNumber
SiloDetailsRequest(siloNumber) ==
  NewQuery("siloDetails", [siloNumber |-> Some(siloNumber)], "silo")

SiloDetailsFindSilo ==
  /\ At("siloDetails", "silo")
  /\ LET silo == FindFirstSilo(silos, query[1].req.siloNumber[1])
     IN  IF silo = {} THEN Answer(NotFound)
         ELSE Goto("select", Some(CHOOSE t \in silo : TRUE), << >>)

SiloDetailsSelect ==
  /\ At("siloDetails", "select")
  /\ Answer([status |-> 200,
             silo |-> query[1].silo[1],
             statistics |-> SiloStatistics(readings, query[1].silo[1].id)])

\* The instants new Date() may give when the analytics handler asks.
Clock == {500, 555}

\* The default of hours (line 351).
DefaultHours == 24

\* Variant: no truncation, a bucket per instant.
DateTruncNone(time) == time

\* date_trunc('hour', timestamp), instants in minutes.
DateTruncHour(time) == time - (time % 60)

\* Lines 338-352: explicit start and end when both are given, else the
\* last hours (given or 24) before now.
TimeRange(req, now) ==
  IF req.startDate # None /\ req.endDate # None
    THEN [start |-> NewDate(req.startDate).time,
          end |-> NewDate(req.endDate).time]
  ELSE IF req.hours # None
    THEN [start |-> now - req.hours[1] * 60, end |-> now]
  ELSE [start |-> now - DefaultHours * 60, end |-> now]

\* Variant: the buckets latest first.
RECURSIVE Descending(_)
Descending(S) ==
  IF S = {} THEN << >>
  ELSE LET h == CHOOSE x \in S : \A y \in S : y <= x
       IN  <<h>> \o Descending(S \ {h})

\* orderBy(date_trunc('hour', timestamp)) over the groups.
RECURSIVE Ascending(_)
Ascending(S) ==
  IF S = {} THEN << >>
  ELSE LET h == CHOOSE x \in S : \A y \in S : x <= y
       IN  <<h>> \o Ascending(S \ {h})

\* The hourly select: the silo's readings of the window, grouped by hour.
HourlyData(table, siloId, range) ==
  LET S == {x \in table :
              /\ x.siloId = siloId
              /\ x.timestamp >= range.start
              /\ x.timestamp <= range.end}
      group(h) == {x \in S : DateTruncHour(x.timestamp) = h}
      hours == Ascending({DateTruncHour(x.timestamp) : x \in S})
  IN  [k \in 1..Len(hours) |->
         LET temp == Aggregates(group(hours[k]), "temperature")
             hum == Aggregates(group(hours[k]), "humidity")
         IN  [hour |-> hours[k],
              avgTemp |-> temp.avg, minTemp |-> temp.min,
              maxTemp |-> temp.max,
              avgHumidity |-> hum.avg, minHumidity |-> hum.min,
              maxHumidity |-> hum.max,
              readingCount |-> Cardinality(group(hours[k])),
              errorCount |-> ErrorCount(group(hours[k]))]]

\* GET /api/silos/:siloNumber/analytics, the parameters validated.
AnalyticsRequest(siloNumber, hours, startDate, endDate) ==
  NewQuery("analytics",
           [siloNumber |-> Some(siloNumber), hours |-> hours,
            startDate |-> startDate, endDate |-> endDate],
           "silo")

AnalyticsFindSilo ==
  /\ At("analytics", "silo")
  /\ LET silo == FindFirstSilo(silos, query[1].req.siloNumber[1])
     IN  IF silo = {} THEN Answer(NotFound)
         ELSE Goto("select", Some(CHOOSE t \in silo : TRUE), << >>)

AnalyticsSelect ==
  /\ At("analytics", "select")
  /\ \E now \in Clock :
       LET range == TimeRange(query[1].req, now)
       IN  Answer([status |-> 200,
                   silo |-> query[1].silo[1],
                   timeRange |-> range,
                   hourlyData |->
                     HourlyData(readings, query[1].silo[1].id, range)])

Report ==
  \/ \E n \in SiloNumbers, hours \in {None, Some(1)},
        startDate \in {None, Some("2023-10-27T08:15:00Z")},
        endDate \in {None, Some("2023-10-27T09:00:00Z")} :
       AnalyticsRequest(n, hours, startDate, endDate)
  \/ AnalyticsFindSilo
  \/ AnalyticsSelect
  \/ LatestRequest
  \/ LatestSelect
  \/ \E n \in SiloNumbers : SiloDetailsRequest(n)
  \/ SiloDetailsFindSilo
  \/ SiloDetailsSelect

\* One ingestion at a time, and reports at any point of it.
NextReport == Step(1, QueryFiles) \/ Report

SpecReport == Init /\ [][NextReport]_vars

\* ------------------------------------------------------------------------
\* Properties
\* ------------------------------------------------------------------------
SiloNumberOf(id) == (CHOOSE s \in silos : s.id = id).siloNumber

ReadingsAt(siloNumber, time) ==
  {x \in readings : SiloNumberOf(x.siloId) = siloNumber /\ x.timestamp = time}

RECURSIVE TotalEntries(_)
TotalEntries(buffer) ==
  IF buffer = << >> THEN 0
  ELSE Len(Head(buffer).readings) + TotalEntries(Tail(buffer))

BadRows(buffer) ==
  {k \in 1..Len(buffer) : ~NewDate(buffer[k].timestamp).valid}

StoreFailures(st) ==
  {k \in 1..Len(st.errors) : st.errors[k].cause = "store error"}

HasResolved(r) == outcome[r] # None /\ outcome[r][1].settled = "resolved"

\* Run r ingested, with nothing else running, the input of the run before it
\* in the same slot, and both runs returned stats.
Reingested(r) ==
  /\ HasResolved(r)
  /\ prev[r] # None
  /\ prev[r][1].outcome # None
  /\ prev[r][1].outcome[1].settled = "resolved"
  /\ prev[r][1].input = input[r]
  /\ \A o \in Runs \ {r} : pc[o] = "idle"

\* The (silo identifier, instant) pairs whose insert run r has been through.
Attempted(r) ==
  {<<rows[r][i].readings[j].siloNumber, NewDate(rows[r][i].timestamp).time>> :
     <<i, j>> \in
       {q \in UNION {{<<i, j>> : j \in 1..Len(rows[r][i].readings)} :
                       i \in 1..Len(rows[r])} :
          /\ NewDate(rows[r][q[1]].timestamp).valid
          /\ pc[r] \in {"find", "create", "insert", "done", "failed"}
          /\ IF cur[r] = None THEN pc[r] = "done"
             ELSE \/ q[1] < cur[r][1][1]
                  \/ (q[1] = cur[r][1][1] /\ q[2] < cur[r][1][2])}}

\* C1: in every reachable state, under any interleaving of ingestion runs,
\* the reading store holds at most one reading per (silo, timestamp) pair.
C1_UniqueSiloTimestamp ==
  \A x, y \in readings :
    (SiloNumberOf(x.siloId) = SiloNumberOf(y.siloId)
       /\ x.timestamp = y.timestamp) => x = y

\* A run finished after an insert of it hit a pair that was already stored.
C1_Witness ==
  \E r \in Runs :
    /\ HasResolved(r)
    /\ stats[r].readingsInserted > added[r]
    /\ readings # {}

C3_SecondRunInsertsNothing ==
  \A r \in Runs :
    (Reingested(r) /\ faults = 0) =>
      /\ stats[r].readingsInserted = 0
      /\ stats[r].rowsProcessed = prev[r][1].stats.rowsProcessed

\* C4: the reported readingsInserted of a run equals the number of readings
\* the run added to the store; an insert that hits an existing pair is not
\* counted.
C4_CountsRealInserts ==
  \A r \in Runs : HasResolved(r) => stats[r].readingsInserted = added[r]

\* C5: after sequential ingestion runs exactly one silo exists for each silo
\* identifier found in the ingested rows, however many rows or runs name it.
C5_OneSiloPerIdentifier ==
  \A r \in Runs :
    HasResolved(r) =>
      \A n \in stats[r].silosFound
               \cup (IF prev[r] # None /\ prev[r][1].outcome # None
                          /\ prev[r][1].outcome[1].settled = "resolved"
                       THEN prev[r][1].stats.silosFound ELSE {}) :
        Cardinality({s \in silos : s.siloNumber = n}) = 1

\* Two runs named silo 001, the second in two rows, and it also found 002.
C5_Witness ==
  \E r \in Runs :
    /\ HasResolved(r)
    /\ prev[r] # None
    /\ prev[r][1].outcome # None
    /\ prev[r][1].outcome[1].settled = "resolved"
    /\ "001" \in prev[r][1].stats.silosFound
    /\ stats[r].silosFound = {"001", "002"}
    /\ stats[r].rowsProcessed = 2

\* C6: when two interleaved runs resolve the same never-seen identifier, no
\* reachable state holds two silo entities with that identifier.
C6_NoDuplicateSilo ==
  \A s, t \in silos : s.siloNumber = t.siloNumber => s = t

\* Both runs looked the identifier up before either created it, and both
\* are now past the creation.
C6_Witness ==
  /\ \A r \in Runs : pc[r] \in {"insert", "done", "failed"}
  /\ \E r \in Runs : outcome[r] = Some(Rejected("silos_silo_number_unique"))
  /\ silos # {}

\* C7: the resolution that loses the creation race falls back to the existing
\* silo, so both runs process all their entries and both return stats.
C7_LoserFallsBack ==
  \A r \in Runs :
    /\ outcome[r] # Some(Rejected("silos_silo_number_unique"))
    /\ pc[r] = "done" =>
         (HasResolved(r)
            /\ Len(stats[r].errors) + stats[r].readingsInserted
                 = TotalEntries(rows[r]))

C10_BadRowSkipped ==
  \A r \in Runs :
    (HasResolved(r) /\ faults = 0 /\ prev[r] = None
       /\ \A o \in Runs \ {r} : pc[o] = "idle") =>
      /\ Len(stats[r].errors) = Cardinality(BadRows(rows[r]))
      /\ BadRows(rows[r]) = 1..Len(rows[r]) => (silos = {} /\ added[r] = 0)

C12_SuccessIffNoErrors ==
  \A r \in Runs :
    HasResolved(r) =>
      /\ outcome[r][1].stats = stats[r]
      /\ outcome[r][1].success <=> (outcome[r][1].stats.errors = << >>)

\* A run that recorded one error returned success = false, after a run
\* that recorded none had returned success = true.
C12_Witness ==
  \E r \in Runs :
    /\ HasResolved(r)
    /\ ~outcome[r][1].success
    /\ Len(outcome[r][1].stats.errors) = 1
    /\ prev[r] # None
    /\ prev[r][1].outcome # None
    /\ prev[r][1].outcome[1].settled = "resolved"
    /\ prev[r][1].outcome[1].success
    /\ prev[r][1].stats.readingsInserted >= 1

\* C13: every step of an ingestion run or of a query keeps every stored
\* reading with its silo, timestamp, temperature, humidity, error flag and
\* raw text, and every silo with its identifier and name.
C13_StoredForGood ==
  [][/\ \A x \in readings : x \in readings'
     /\ \A t \in silos : t \in silos']_vars

\* A second run offered an ERR entry for 08:00 of silo 001, where the first
\* had stored a numeric one, a query has just been answered, and the
\* numeric reading is still the stored one.
C13_Witness ==
  \E r \in Runs :
    /\ HasResolved(r)
    /\ prev[r] # None
    /\ Answered
    /\ rows[r][1].readings[1].siloNumber = "001"
    /\ rows[r][1].readings[1].isError
    /\ NewDate(rows[r][1].timestamp).time = 480
    /\ \E x \in ReadingsAt("001", 480) : ~x.isError

\* The silo identifiers and the instants of the buffered rows.
RowSilos(row) == {row.readings[j].siloNumber : j \in 1..Len(row.readings)}

RowTimes(buffer) == {NewDate(buffer[k].timestamp).time : k \in 1..Len(buffer)}

DistinctSilos(line) ==
  {ColumnMatch(line.cols[i])[1].siloNumber :
     i \in {j \in 1..Len(line.cells) :
              /\ line.cols[j] # TimestampColumn
              /\ ColumnMatch(line.cols[j]) # None}}

RECURSIVE SumDistinctSilos(_)
SumDistinctSilos(file) ==
  IF file = << >> THEN 0
  ELSE Cardinality(DistinctSilos(Head(file))) + SumDistinctSilos(Tail(file))

\* C15: at every point of every run, readingsInserted is at most the sum
\* over the input rows of the number of distinct silos the row names.
C15_InsertedAtMostEntries ==
  \A r \in Runs : stats[r].readingsInserted <= SumDistinctSilos(input[r])

\* A second run over two rows of two silos reported four readings, the
\* bound itself, though the store already held some of them.
C15_Witness ==
  \E r \in Runs :
    /\ HasResolved(r)
    /\ prev[r] # None
    /\ SumDistinctSilos(input[r]) = 4
    /\ stats[r].readingsInserted = 4
    /\ added[r] < 4

\* Reading a text as a number, as a whole: sign, digits with at most one
\* point (a decimal), possibly an exponent after it, or a signed Infinity.
IsBlank(c) == c = None \/ trim(c[1]) = << >>

Unsigned(t) == IF t # << >> /\ Head(t) \in {"+", "-"} THEN Tail(t) ELSE t

SignOf(t) == IF t # << >> /\ Head(t) = "-" THEN 0 - 1 ELSE 1

ExponentLen(t) ==
  IF t = << >> \/ Head(t) \notin {"e", "E"} THEN 0
  ELSE LET signed == Len(t) >= 2 /\ t[2] \in {"+", "-"}
           digits == DigitRun(Drop(t, IF signed THEN 2 ELSE 1))
       IN  IF digits = 0 THEN 0 ELSE 1 + (IF signed THEN 1 ELSE 0) + digits

IsDecimal(t) ==
  /\ DigitRun(Unsigned(t)) + FracLen(Unsigned(t)) > 0
  /\ MantissaLen(Unsigned(t)) = Len(Unsigned(t))

IsNumberText(t) ==
  \/ Unsigned(t) = InfinityText
  \/ /\ DigitRun(Unsigned(t)) + FracLen(Unsigned(t)) > 0
     /\ MantissaLen(Unsigned(t))
          + ExponentLen(Drop(Unsigned(t), MantissaLen(Unsigned(t))))
            = Len(Unsigned(t))

DecimalValue(t) ==
  Normal(SignOf(t) * DigitsValue(MantissaDigits(Unsigned(t))),
         0 - FracLen(Unsigned(t)))

\* -100 <= n <= 1000 for a decimal n = m * 10^e.
InBand(n) ==
  IF n.e >= 0
    THEN n.m * Pow10(n.e) <= 1000 /\ n.m * Pow10(n.e) >= 0 - 100
    ELSE n.m <= 1000 * Pow10(0 - n.e) /\ n.m >= (0 - 100) * Pow10(0 - n.e)

Classification(numeric, isError, raw) ==
  [numeric |-> numeric, isError |-> isError, raw |-> raw]

C17_NonNumbersAreErrors ==
  (classified # None /\ ~IsBlank(cell) /\ ~IsNumberText(trim(cell[1]))) =>
    classified[1] = Classification(None, TRUE, Some(trim(cell[1])))

\* The answer of the query just answered, and the identifier it was scoped by.
Response == query[1].response[1]

AnsweredOp(ops) == Answered /\ query[1].op \in ops

\* The identifiers of the silos the rows of the answer belong to.
AnswerSilos ==
  IF Response.status # 200 THEN {}
  ELSE IF query[1].op = "stats"
    THEN {row.siloNumber : row \in Response.data}
  ELSE IF query[1].op = "readings"
    THEN {Response.data[k].siloNumber : k \in 1..Len(Response.data)}
  ELSE {SiloNumberOf(x.siloId) :
          x \in {y \in readings :
                   \E k \in 1..Len(Response.readings) :
                     Response.readings[k].id = y.id}}

\* C18: a query scoped by a silo identifier answers with rows of that silo
\* only, and with not-found when its lookup finds no silo of that identifier.
C18_ScopedToSilo ==
  (AnsweredOp({"readings", "stats", "siloReadings"})
     /\ query[1].req.siloNumber # None) =>
    /\ AnswerSilos \subseteq {query[1].req.siloNumber[1]}
    /\ query[1].silo = None => Response.status = 404

Min(a, b) == IF a < b THEN a ELSE b

\* C19: list readings with limit L and offset O answers with
\* min(L, total - O) readings, none when O >= total, newest first, total
\* being the number of readings that match the filters, and hasMore is true
\* exactly when O plus the number returned is less than total.
C19_PageMatchesTotal ==
  (AnsweredOp({"siloReadings"}) /\ Response.status = 200) =>
    LET total == Cardinality(SiloReadingsMatching)
        L == query[1].req.limit
        O == query[1].req.offset
        page == Response.readings
    IN  /\ Response.total = total
        /\ Len(page) = (IF O >= total THEN 0 ELSE Min(L, total - O))
        /\ \A i, j \in 1..Len(page) :
             i < j => page[i].timestamp > page[j].timestamp
        /\ Response.hasMore <=> (O + Len(page) < total)

\* The stored readings in the scope of the query just answered.
InScope ==
  IF query[1].silo = None THEN readings
  ELSE {x \in readings : x.siloId = query[1].silo[1].id}

\* C20: a list-readings query that does not state the error-inclusion
\* option answers with the error-flagged readings of its scope too: all of
\* them are among the rows of GET /api/readings (whose default page holds
\* every row), and the total of GET /api/silos/:siloNumber/readings counts
\* them.
C20_ErrorsIncludedByDefault ==
  (AnsweredOp({"readings", "siloReadings"}) /\ Response.status = 200
     /\ query[1].req.includeErrors = None) =>
    IF query[1].op = "readings"
      THEN \A x \in InScope :
             x.isError =>
               \E k \in 1..Len(Response.data) : Response.data[k].id = x.id
      ELSE Response.total = Cardinality(InScope)

\* The stored readings of the silo with the given identifier.
ReadingsOf(siloNumber) ==
  {x \in readings : SiloNumberOf(x.siloId) = siloNumber}

\* C21: latest-reading-per-silo answers with exactly one entry for each silo
\* that has a reading, carrying the silo's reading of maximum timestamp, with
\* no entry for a silo without readings, in ascending order of identifier.
C21_LatestPerSilo ==
  AnsweredOp({"latest"}) =>
    LET data == Response.data
    IN  /\ \A s \in silos :
             ReadingsOf(s.siloNumber) # {} =>
               /\ Cardinality({k \in 1..Len(data) :
                                 data[k].siloNumber = s.siloNumber}) = 1
               /\ \A k \in 1..Len(data) :
                    data[k].siloNumber = s.siloNumber =>
                      /\ \A x \in ReadingsOf(s.siloNumber) :
                           x.timestamp <= data[k].timestamp
                      /\ \E x \in ReadingsOf(s.siloNumber) :
                           /\ x.timestamp = data[k].timestamp
                           /\ x.temperature = data[k].temperature
                           /\ x.humidity = data[k].humidity
                           /\ x.isError = data[k].isError
        /\ \A k \in 1..Len(data) : ReadingsOf(data[k].siloNumber) # {}
        /\ \A i, j \in 1..Len(data) :
             i < j =>
               SiloNumberKey(data[i].siloNumber)
                 < SiloNumberKey(data[j].siloNumber)

\* Silo 001 holds two readings and silo 002, created, none yet: the answer
\* is the one entry of 001, its later reading.
C21_Witness ==
  /\ AnsweredOp({"latest"})
  /\ Cardinality(silos) = 2
  /\ Cardinality(ReadingsOf("001")) = 2
  /\ ReadingsOf("002") = {}
  /\ Len(Response.data) = 1
  /\ \E x \in ReadingsOf("001") : x.timestamp < Response.data[1].timestamp

\* The readings of the silo of the query just answered.
OfAnsweredSilo == {x \in readings : x.siloId = query[1].silo[1].id}

\* C22: silo statistics give the average, minimum and maximum of
\* temperature and of humidity over the values of the silo's readings whose
\* error flag is not set; errorCount counts the flagged readings and
\* totalCount all readings of the silo.
C22_StatisticsSkipFlagged ==
  (AnsweredOp({"siloDetails"}) /\ Response.status = 200) =>
    LET clean == {x \in OfAnsweredSilo : ~x.isError}
        temp == Aggregates(clean, "temperature")
        hum == Aggregates(clean, "humidity")
        st == Response.statistics
    IN  /\ st.avgTemp = temp.avg /\ st.minTemp = temp.min
        /\ st.maxTemp = temp.max
        /\ st.avgHumidity = hum.avg /\ st.minHumidity = hum.min
        /\ st.maxHumidity = hum.max
        /\ OfAnsweredSilo # {} =>
             st.errorCount
               = Some(Cardinality({x \in OfAnsweredSilo : x.isError}))
        /\ st.totalCount = Cardinality(OfAnsweredSilo)

\* C23: hourly analytics answers with buckets in strictly ascending order of
\* bucket start, no two of them with the same start hour, none with a
\* reading count of 0.
C23_BucketsAscending ==
  (AnsweredOp({"analytics"}) /\ Response.status = 200) =>
    LET data == Response.hourlyData
    IN  /\ \A i, j \in 1..Len(data) : i < j => data[i].hour < data[j].hour
        /\ \A k \in 1..Len(data) : data[k].readingCount >= 1

\* Two buckets, 08:00 with two readings before 09:00 with one.
C23_Witness ==
  /\ AnsweredOp({"analytics"})
  /\ Response.status = 200
  /\ Len(Response.hourlyData) = 2
  /\ Response.hourlyData[1].hour = 480
  /\ Response.hourlyData[1].readingCount = 2
  /\ Response.hourlyData[2].hour = 540

\* The window of the analytics query just answered, as the request states
\* it: explicit start and end, or the last N hours (24 when not given)
\* before the end the answer reports.
AskedWindow ==
  LET req == query[1].req
      end == Response.timeRange.end
  IN  IF req.startDate # None /\ req.endDate # None
        THEN [start |-> NewDate(req.startDate).time,
              end |-> NewDate(req.endDate).time]
        ELSE [start |-> end - 60 * (IF req.hours # None THEN req.hours[1]
                                    ELSE 24),
              end |-> end]

InWindow == {x \in OfAnsweredSilo :
               AskedWindow.start <= x.timestamp
                 /\ x.timestamp <= AskedWindow.end}

RECURSIVE SumCounts(_)
SumCounts(data) ==
  IF data = << >> THEN 0
  ELSE Head(data).readingCount + SumCounts(Tail(data))

\* C24: in hourly analytics every reading of the silo with a timestamp in
\* the inclusive window is counted in exactly one bucket, the one of its
\* timestamp truncated to the hour; the reading counts sum to the number of
\* the silo's readings in the window; readings of other silos or outside
\* the window are counted nowhere.
C24_CountedOnce ==
  (AnsweredOp({"analytics"}) /\ Response.status = 200) =>
    LET data == Response.hourlyData
    IN  /\ \A x \in InWindow :
             Cardinality({k \in 1..Len(data) :
                            data[k].hour = 60 * (x.timestamp \div 60)}) = 1
        /\ \A k \in 1..Len(data) :
             data[k].readingCount
               = Cardinality({x \in InWindow :
                                60 * (x.timestamp \div 60) = data[k].hour})
        /\ SumCounts(data) = Cardinality(InWindow)

\* Silo 001 holds 08:00, 08:15 and 09:00 and the window is 08:15 to 09:00,
\* both ends included: two buckets of one reading each, the 08:00 reading
\* and the readings of silo 002 counted nowhere.
C24_Witness ==
  /\ AnsweredOp({"analytics"})
  /\ Response.status = 200
  /\ query[1].req.siloNumber = Some("001")
  /\ Response.timeRange = [start |-> 495, end |-> 540]
  /\ Cardinality(OfAnsweredSilo) = 3
  /\ Cardinality(ReadingsOf("002")) >= 2
  /\ Len(Response.hourlyData) = 2
  /\ SumCounts(Response.hourlyData) = 2

\* The readings of one hour in one bucket: 08:00 and 08:15, the default
\* window of the last 24 hours.
C24_WitnessOneHour ==
  /\ AnsweredOp({"analytics"})
  /\ Response.status = 200
  /\ query[1].req.hours = None
  /\ Len(Response.hourlyData) = 1
  /\ Response.hourlyData[1].readingCount = 2

\* C25: the reading stored for a per-silo entry of a row carries as error
\* flag the OR of the error flags of its two cells, and each metric as its
\* own cell classified: a cell that is a valid number is stored as that
\* number even when the other cell of the entry is a gap or an error.
C25_FlagIsOrOfCells ==
  [][\A r \in Runs :
       (pc[r] = "insert" /\ added'[r] > added[r]) =>
         LET line == input[r][cur[r][1][1]]
             j == cur[r][1][2]
             temp == parseSensorValue(Some(line.cells[2 * j]))
             hum == parseSensorValue(Some(line.cells[2 * j + 1]))
         IN  \A x \in readings' \ readings :
               /\ x.isError = (temp.isError \/ hum.isError)
               /\ x.temperature = temp.numeric
               /\ x.humidity = hum.numeric
               /\ temp.numeric # None => x.temperature # None
               /\ hum.numeric # None => x.humidity # None
    ]_vars

\* Stored: a reading with the humidity 57 next to an ERR temperature, and
\* one with the humidity 45 next to an empty temperature cell.
C25_Witness ==
  /\ \E x \in readings :
       /\ x.isError /\ x.temperature = None
       /\ x.humidity = Some([m |-> 57, e |-> 0])
  /\ \E x \in readings :
       /\ ~x.isError /\ x.temperature = None /\ x.rawValue = Some(<<"4", "5">>)
       /\ x.humidity = Some([m |-> 45, e |-> 0])
  /\ \E r \in Runs : HasResolved(r)

\* The rows of run r that hold an entry for the silo at the instant, in the
\* order supplied.
RowsFor(r, siloNumber, time) ==
  {i \in 1..Len(rows[r]) :
     /\ NewDate(rows[r][i].timestamp).valid
     /\ NewDate(rows[r][i].timestamp).time = time
     /\ siloNumber \in RowSilos(rows[r][i])}

EntryFor(r, i, siloNumber) ==
  rows[r][i].readings[CHOOSE j \in 1..Len(rows[r][i].readings) :
                        rows[r][i].readings[j].siloNumber = siloNumber]

Carries(x, entry) ==
  /\ x.temperature = entry.temperature
  /\ x.humidity = entry.humidity
  /\ x.isError = entry.isError
  /\ x.rawValue = RawValue(entry)

\* The store held a reading of the pair when run r started.
StoredBefore(r, siloNumber, time) ==
  /\ prev[r] # None
  /\ \E x \in prev[r][1].readings :
       /\ x.timestamp = time
       /\ \E s \in prev[r][1].silos :
            s.id = x.siloId /\ s.siloNumber = siloNumber

\* The pair is in several rows of run r, and the insert of the first of
\* them is behind the run.
SeveralRows(r, p) ==
  p \in Attempted(r) /\ Cardinality(RowsFor(r, p[1], p[2])) >= 2

FirstRow(r, p) ==
  CHOOSE i \in RowsFor(r, p[1], p[2]) : \A k \in RowsFor(r, p[1], p[2]) : i <= k

StoreAsFound(r) ==
  IF prev[r] = None THEN silos = {} /\ readings = {}
  ELSE silos = prev[r][1].silos /\ readings = prev[r][1].readings

\* C27: a run writes nothing to the store, no silo and no reading, before
\* the whole row stream has been read; when the stream reports an error
\* before its end the run is rejected with the silos and the readings as
\* they were when it started.
C27_NoWriteBeforeEnd ==
  [][\A r \in Runs :
       LET acted ==
             <<pc[r], rows[r], stats[r]>> # <<pc'[r], rows'[r], stats'[r]>>
       IN  /\ (pc[r] = "streaming" /\ acted) =>
                /\ silos' = silos /\ siloSeq' = siloSeq
                /\ readings' = readings /\ readingSeq' = readingSeq
                /\ added'[r] = 0
           /\ (pc[r] = "streaming" /\ pc'[r] = "failed") =>
                /\ outcome'[r] # None
                /\ outcome'[r][1].settled = "rejected"
                /\ (\A o \in Runs \ {r} : pc[o] = "idle") => StoreAsFound(r)'
    ]_vars

\* The second run of the slot was rejected by a stream error after one row
\* of two, and the store holds what the first run left, silos and readings.
C27_Witness ==
  \E r \in Runs :
    /\ pc[r] = "failed"
    /\ outcome[r] = Some(Rejected("stream error"))
    /\ Len(rows[r]) = 1
    /\ Len(input[r]) = 2
    /\ prev[r] # None
    /\ readings # {}
    /\ StoreAsFound(r)

====
